---- MODULE Spec2Model ----
(***************************************************************************)
(* The advisory AI scoring service (ai-scorer/app/api.py): the lifecycle   *)
(* of the anomaly model (load_or_create_model, the __main__ block) and the *)
(* three request handlers (health, score_transaction, score_peer).         *)
(*                                                                         *)
(* Numbers are fixed-point integers in units of 1/1000 (Milli): 1.0 is     *)
(* 1000, 0.5 is 500, 0.1 is 100.  Every arithmetic step of the handlers    *)
(* that the model takes is exact in these units for the inputs drawn.      *)
(***************************************************************************)
EXTENDS Integers, Sequences, FiniteSets, TLC

\* ------------------------------------------------------------------------
\* Numbers
\* ------------------------------------------------------------------------

\* 1.0 in fixed-point units.
One == 1000

\* The literal 0.5 of line 143 (0.5 - decision_score), in fixed-point units.
ScoreOffset == 500

\* The literal 0.5 of line 154 (fee_adequacy *= 0.5), in fixed-point units.
LowFeeFactor == 500

\* The literal 0.1 of line 153, in fixed-point units.
LowFee == 100

\* The literal 100 of line 149 (a plain factor, not fixed-point).
FeeRateScale == 100

\* The constant reliability score of line 178, in fixed-point units.
Half == 500

\* A "very large" fee or fee rate (1000.0).
Big == 1000000

\* Python's built-in max(a, b) and min(a, b) on numbers.
PyMax(a, b) == IF b > a THEN b ELSE a

PyMin(a, b) == IF b < a THEN b ELSE a

\* ------------------------------------------------------------------------
\* JSON values and request bodies
\* ------------------------------------------------------------------------

\* A field value: a JSON number, or a JSON string that spells a number
\* (which numpy converts to a number but Python arithmetic does not).
Num(n) == [k |-> "num", v |-> n]

NumStr(n) == [k |-> "numstr", v |-> n]

IsNum(x) == x.k = "num"

\* The order of the feature vector, lines 121-130.
FieldOrder ==
    << "num_inputs", "num_outputs", "total_input", "total_output",
       "fee", "fee_rate", "change_ratio", "input_diversity" >>

Fields == { FieldOrder[i] : i \in 1..Len(FieldOrder) }

OtherFields == Fields \ {"fee", "fee_rate"}

\* The value a field other than fee and fee_rate carries when present: the
\* example request of the handler's docstring, lines 97-104.
OtherValue(f) ==
    CASE f = "num_inputs"      -> Num(2000)
      [] f = "num_outputs"     -> Num(2000)
      [] f = "total_input"     -> Num(100000)
      [] f = "total_output"    -> Num(99000)
      [] f = "change_ratio"    -> Num(990)
      [] f = "input_diversity" -> Num(1000)

\* fee_rate values: negative, 0.0, 0.005, 0.01, very large, a numeric string.
FeeRateValues == { Num(-10), Num(0), Num(5), Num(10), Num(Big), NumStr(10) }

\* fee values: negative, 0.05, 0.1, 1.0, very large, a numeric string.
FeeValues == { Num(-1000), Num(50), Num(LowFee), Num(One), Num(Big), NumStr(50) }

Missing == [k |-> "missing", v |-> 0]

\* The JSON object with the fields `others`, and fee_rate / fee when given.
MakeObject(others, fr, fe) ==
    LET dom == others \cup (IF fr = Missing THEN {} ELSE {"fee_rate"})
                      \cup (IF fe = Missing THEN {} ELSE {"fee"})
    IN  [ f \in dom |-> IF f = "fee_rate" THEN fr
                        ELSE IF f = "fee" THEN fe
                        ELSE OtherValue(f) ]

\* Every JSON object over a subset of the 8 named fields (the empty object
\* included).
Objects ==
    { MakeObject(o, fr, fe) : o \in SUBSET OtherFields,
                              fr \in FeeRateValues \cup {Missing},
                              fe \in FeeValues \cup {Missing} }

\* A request body as it arrives.
\*   bad_json   : JSON content type, text that does not parse
\*   empty_json : JSON content type, zero-length body
\*   absent     : no body and no JSON content type
\*   null, zero, empty_list, list, scalar : valid JSON that is no object
\*   object     : a JSON object, in field obj
Body(kind, obj) == [kind |-> kind, obj |-> obj]

NoObject == MakeObject({}, Missing, Missing)

UnparsedKinds == {"bad_json", "empty_json", "absent"}

NonObjectKinds == {"null", "zero", "empty_list", "list", "scalar"}

Bodies ==
    { Body(k, NoObject) : k \in UnparsedKinds \cup NonObjectKinds }
        \cup { Body("object", o) : o \in Objects }

\* ------------------------------------------------------------------------
\* The anomaly model (an object the code only calls into)
\* ------------------------------------------------------------------------

\* What tx_anomaly_model can hold: None, the IsolationForest fitted on the
\* bootstrap sample (deterministic: random_state=42 and a fixed sample), an
\* estimator somebody else put at model_path, or an unpickled object that is
\* no estimator at all.
NoModel == "None"

BootstrapModel == "bootstrap"

Estimators == {"bootstrap", "foreign"}

Pickles == Estimators \cup {"not_estimator"}

\* What the file at model_path can hold.
Absent == "absent"

Corrupt == "corrupt"

Artifacts == {Absent, Corrupt} \cup Pickles

\* The numeric value numpy sees in position i of the feature vector.
RECURSIVE WeightedSum(_, _)
WeightedSum(x, i) ==
    IF i = 0 THEN 0 ELSE i * x[i].v + WeightedSum(x, i - 1)

\* decision_function(features)[0]: a fixed function of the model and the
\* vector.  The forest itself is a library object; the model gives each
\* estimator an arbitrary but fixed function whose range, -0.8 .. 0.8,
\* exceeds the "typical" -0.5 .. 0.5 on both sides.
DecisionFunction(m, x) ==
    LET seed == IF m = "bootstrap" THEN 7 ELSE 13
    IN  ((WeightedSum(x, Len(x)) * seed) % 1601) - 800

\* predict(features)[0]: -1 (anomaly) or 1 (normal).  For the forest it is the
\* sign of the decision function; another estimator draws its own boundary.
Predict(m, x) ==
    LET d == DecisionFunction(m, x)
    IN  IF m = "bootstrap" THEN (IF d < 0 THEN -1 ELSE 1)
        ELSE (IF d < 300 THEN 1 ELSE -1)

\* ------------------------------------------------------------------------
\* score_transaction, step by step
\* ------------------------------------------------------------------------

None == Body("none", NoObject)

\* request.get_json(): the parsed value, or an exception (a werkzeug
\* HTTPException, which is an Exception and so reaches line 165).  Text that
\* does not parse raises BadRequest in every Flask release.  A request
\* without a JSON content type yields None in the releases before 2.1
\* (legacy) and raises from 2.1 on.
GetJson(body, legacy) ==
    CASE body.kind \in {"empty_json", "bad_json"} ->
            [raised |-> TRUE, data |-> None]
      [] body.kind = "absent" ->
            [raised |-> ~legacy, data |-> None]
      [] OTHER ->
            [raised |-> FALSE, data |-> body]

\* Python truth value of the parsed JSON: None, null, 0, [] and {} are false.
Truthy(data) ==
    CASE data.kind \in {"none", "null", "zero", "empty_list"} -> FALSE
      [] data.kind = "object" -> DOMAIN data.obj # {}
      [] OTHER -> TRUE

\* data.get(name, 0)
Get(obj, name) == IF name \in DOMAIN obj THEN obj[name] ELSE Num(0)

\* Lines 121-130: the 1x8 vector, in FieldOrder.
ExtractFeatures(obj) ==
    [ i \in 1..Len(FieldOrder) |-> Get(obj, FieldOrder[i]) ]

\* Lines 135-136 alone: the score the label gives, were line 144 missing.
AnomalyFromLabel(m, x) ==
    LET prediction == Predict(m, x)
    IN  IF prediction = -1 THEN One ELSE 0

\* Lines 135-144: the anomaly score from the model's two answers.
AnomalyScore(m, x) ==
    LET prediction       == Predict(m, x)
        first            == IF prediction = -1 THEN One ELSE 0
        decision_score   == DecisionFunction(m, x)
        normalized_score == PyMax(0, PyMin(One, ScoreOffset - decision_score))
    IN  normalized_score

\* Lines 149-154 without the min / max of line 149.
FeeAdequacyUnclamped(fee_rate, fee) ==
    LET scaled == fee_rate * FeeRateScale
    IN  IF fee < LowFee THEN (scaled * LowFeeFactor) \div One ELSE scaled

\* Lines 149-154 with line 153 reading fee <= 0.1.
FeeAdequacyInclusive(fee_rate, fee) ==
    LET clamped == PyMin(One, PyMax(0, fee_rate * FeeRateScale))
    IN  IF fee <= LowFee THEN (clamped * LowFeeFactor) \div One ELSE clamped

\* Lines 149-154, for numbers.

FeeAdequacy(fee_rate, fee) ==
    LET clamped == PyMin(One, PyMax(0, fee_rate * FeeRateScale))
    IN  IF fee < LowFee THEN (clamped * LowFeeFactor) \div One ELSE clamped

Error(status, msg) == [status |-> status, body |-> [error |-> msg]]

Success(anomaly, adequacy) ==
    [status |-> 200,
     body   |-> [anomaly_score |-> anomaly,
                 fee_adequacy  |-> adequacy,
                 message       |-> "Transaction scored successfully"]]

\* The handler with the fee computation guarded on its own: a failure there
\* answers with what was computed so far.
ScoreTransactionPartial(body, m, legacy, strict) ==
    LET j == GetJson(body, legacy) IN
    IF j.raised THEN Error(500, "HTTPException")
    ELSE IF ~Truthy(j.data) THEN Error(400, "No JSON data provided")
    ELSE IF j.data.kind # "object" THEN Error(500, "AttributeError")
    ELSE
      LET data     == j.data.obj
          features == ExtractFeatures(data)
      IN
      IF m \notin Estimators THEN Error(500, "AttributeError")
      ELSE IF (\E i \in DOMAIN features : ~IsNum(features[i])) /\ strict
           THEN Error(500, "ValueError")
      ELSE
        LET anomaly_score == AnomalyScore(m, features)
            fee_rate      == Get(data, "fee_rate")
            fee           == Get(data, "fee")
        IN
        IF ~IsNum(fee_rate) \/ ~IsNum(fee) THEN [status |-> 200,
              body   |-> [anomaly_score |-> anomaly_score,
                          message |-> "Transaction scored successfully"]]
        ELSE Success(anomaly_score, FeeAdequacy(fee_rate.v, fee.v))

\* Lines 114-167: the whole handler.  `strict` is whether the installed
\* numpy / scikit-learn refuse a vector that holds numeric strings instead of
\* converting it.
ScoreTransaction(body, m, legacy, strict) ==
    LET j == GetJson(body, legacy) IN
    IF j.raised THEN Error(500, "HTTPException")
    ELSE IF ~Truthy(j.data) THEN Error(400, "No JSON data provided")
    ELSE IF j.data.kind # "object" THEN Error(500, "AttributeError")
    ELSE
      LET data     == j.data.obj
          features == ExtractFeatures(data)
      IN
      IF m \notin Estimators THEN Error(500, "AttributeError")
      ELSE IF (\E i \in DOMAIN features : ~IsNum(features[i])) /\ strict
           THEN Error(500, "ValueError")
      ELSE
        LET anomaly_score == AnomalyScore(m, features)
            fee_rate      == Get(data, "fee_rate")
            fee           == Get(data, "fee")
        IN
        IF ~IsNum(fee_rate) \/ ~IsNum(fee) THEN Error(500, "TypeError")
        ELSE Success(anomaly_score, FeeAdequacy(fee_rate.v, fee.v))

\* Lines 83-87.
HealthResponse(m) ==
    [status |-> 200,
     body   |-> [status       |-> "healthy",
                 service      |-> "ai-scorer",
                 model_loaded |-> (m # NoModel)]]

\* Lines 177-180.
PeerResponse ==
    [status |-> 200,
     body   |-> [reliability_score |-> Half,
                 message           |-> "Peer scoring not yet implemented"]]

\* ------------------------------------------------------------------------
\* load_or_create_model
\* ------------------------------------------------------------------------

\* How os.makedirs + joblib.dump end: the file written, the path refused
\* (nothing written), or the write broken off with a partial file left.
DiskOutcomes == {"ok", "denied", "truncated"}

\* load_or_create_model without the os.path.exists test: it always fits and
\* dumps.
LoadOrCreateAlways(art, cur, disk) ==
    CASE disk = "ok" ->
            [model |-> BootstrapModel, artifact |-> BootstrapModel,
             log |-> <<"Creating", "Saved">>, raised |-> "none"]
      [] disk = "denied" ->
            [model |-> BootstrapModel, artifact |-> art,
             log |-> <<"Creating">>, raised |-> "persist"]
      [] disk = "truncated" ->
            [model |-> BootstrapModel, artifact |-> Corrupt,
             log |-> <<"Creating">>, raised |-> "persist"]

\* load_or_create_model with the load guarded: a file that does not load is
\* replaced by a freshly fitted model.
LoadOrCreateReplacing(art, cur, disk) ==
    IF art \in Pickles
    THEN [model |-> art, artifact |-> art,
          log |-> <<"Loading">>, raised |-> "none"]
    ELSE CASE disk = "ok" ->
                [model |-> BootstrapModel, artifact |-> BootstrapModel,
                 log |-> <<"Creating", "Saved">>, raised |-> "none"]
           [] disk = "denied" ->
                [model |-> BootstrapModel, artifact |-> art,
                 log |-> <<"Creating">>, raised |-> "persist"]
           [] disk = "truncated" ->
                [model |-> BootstrapModel, artifact |-> Corrupt,
                 log |-> <<"Creating">>, raised |-> "persist"]

\* Lines 45-72, called with the file holding `art` and the global holding
\* `cur`: the global and the file afterwards, the log lines emitted, and the
\* exception that leaves the function ("none" when it returns).
LoadOrCreate(art, cur, disk) ==
    IF art # Absent
    THEN IF art \in Pickles
         THEN [model |-> art, artifact |-> art,
               log |-> <<"Loading">>, raised |-> "none"]
         ELSE [model |-> cur, artifact |-> art,
               log |-> <<"Loading">>, raised |-> "load"]
    ELSE CASE disk = "ok" ->
                [model |-> BootstrapModel, artifact |-> BootstrapModel,
                 log |-> <<"Creating", "Saved">>, raised |-> "none"]
           [] disk = "denied" ->
                [model |-> BootstrapModel, artifact |-> Absent,
                 log |-> <<"Creating">>, raised |-> "persist"]
           [] disk = "truncated" ->
                [model |-> BootstrapModel, artifact |-> Corrupt,
                 log |-> <<"Creating">>, raised |-> "persist"]

\* ------------------------------------------------------------------------
\* State
\* ------------------------------------------------------------------------

VARIABLES
    proc,               \* "down", "main" (app.run serving after __main__),
                        \* "hosted" (module imported by a WSGI host or a test
                        \* client, serving), "crashed" (__main__ ended by an
                        \* exception before app.run)
    tx_anomaly_model,   \* the module global, line 32
    artifact,           \* the file at model_path, line 33
    legacyJson,         \* installed Flask: get_json yields None without a
                        \* JSON content type (else it raises)
    strictArrays,       \* installed numpy / scikit-learn: numeric strings in
                        \* the feature vector are refused (else converted)
    initLog,            \* logger lines of this process's last
                        \* load_or_create_model call
    raised,             \* the exception that left that call
    persisted,          \* the model the first successful dump wrote
    request,            \* the request being handled (flask.request)
    response,           \* and the response the handler returned
    memo                \* one /score/tx exchange of this process, remembered
                        \* (fresh while it is the one being answered)

vars ==
    << proc, tx_anomaly_model, artifact, legacyJson, strictArrays, initLog,
       raised, persisted, request, response, memo >>

build == << legacyJson, strictArrays >>

NoRequest == [route |-> "none", body |-> Body("absent", NoObject)]

NoResponse == [status |-> 0, body |-> [nothing |-> TRUE]]

NoMemo ==
    [set |-> FALSE, fresh |-> FALSE,
     request |-> NoRequest, response |-> NoResponse]

Init ==
    /\ proc = "down"
    /\ tx_anomaly_model = NoModel
    /\ artifact \in Artifacts
    /\ legacyJson \in BOOLEAN
    /\ strictArrays \in BOOLEAN
    /\ initLog = << >>
    /\ raised = "none"
    /\ persisted = NoModel
    /\ request = NoRequest
    /\ response = NoResponse
    /\ memo = NoMemo

\* The server accepts requests.
Serving == proc \in {"main", "hosted"}

\* No request is being handled.
Idle == request = NoRequest

\* The effect of one load_or_create_model call on the file and the bookkeeping.
Loaded(r) ==
    /\ artifact' = r.artifact
    /\ initLog' = r.log
    /\ raised' = r.raised
    /\ persisted' = IF persisted = NoModel /\ r.log = <<"Creating", "Saved">>
                    THEN r.model ELSE persisted

\* Lines 183-190: python api.py.  An exception from load_or_create_model ends
\* the process before app.run; otherwise the server starts.
MainStart ==
    /\ proc = "down"
    /\ \E disk \in DiskOutcomes :
         LET r == LoadOrCreate(artifact, tx_anomaly_model, disk) IN
         /\ Loaded(r)
         /\ IF r.raised = "none"
            THEN proc' = "main" /\ tx_anomaly_model' = r.model
            ELSE proc' = "crashed" /\ tx_anomaly_model' = NoModel
    /\ UNCHANGED << build, request, response, memo >>

\* Lines 28-33: the module imported by a host that serves `app` itself;
\* __main__ does not run and the global stays None.
HostImport ==
    /\ proc = "down"
    /\ proc' = "hosted"
    /\ UNCHANGED << tx_anomaly_model, artifact, build, initLog, raised,
                    persisted, request, response, memo >>

\* The host calls load_or_create_model() (any number of times); an exception
\* goes to the caller, the global keeps what the function assigned.
HostLoad ==
    /\ proc = "hosted"
    /\ Idle
    /\ \E disk \in DiskOutcomes :
         LET r == LoadOrCreate(artifact, tx_anomaly_model, disk) IN
         /\ Loaded(r)
         /\ tx_anomaly_model' = r.model
    /\ UNCHANGED << proc, build, request, response, memo >>

\* The process ends (or is gone after a crash); a later start begins with
\* fresh module state and the same file.
Stop ==
    /\ proc # "down"
    /\ proc' = "down"
    /\ tx_anomaly_model' = NoModel
    /\ initLog' = << >>
    /\ raised' = "none"
    /\ request' = NoRequest
    /\ response' = NoResponse
    /\ memo' = NoMemo
    /\ UNCHANGED << artifact, build, persisted >>

\* A handler that declares the global and replaces the model it read.
HandlerFrameRefit ==
    /\ tx_anomaly_model' = IF tx_anomaly_model = NoModel THEN NoModel
                           ELSE IF tx_anomaly_model = "foreign"
                                THEN "bootstrap" ELSE "foreign"
    /\ UNCHANGED << proc, artifact, build, initLog, raised, persisted >>

\* What no request handler touches.
HandlerFrame ==
    UNCHANGED << proc, tx_anomaly_model, artifact, build, initLog, raised,
                 persisted >>

\* GET /health
Health ==
    /\ Serving /\ Idle
    /\ request' = [route |-> "/health", body |-> Body("absent", NoObject)]
    /\ response' = HealthResponse(tx_anomaly_model)
    /\ HandlerFrame
    /\ UNCHANGED memo

\* POST /score/tx with a body of `bodies`.
ScoreTxOf(bodies) ==
    /\ Serving /\ Idle
    /\ \E body \in bodies :
         /\ request' = [route |-> "/score/tx", body |-> body]
         /\ response' = ScoreTransaction(body, tx_anomaly_model,
                                         legacyJson, strictArrays)
    /\ HandlerFrame

\* POST /score/tx
ScoreTx ==
    /\ ScoreTxOf(Bodies)
    /\ UNCHANGED memo

\* POST /score/peer
ScorePeer ==
    /\ Serving /\ Idle
    /\ \E body \in { Body(k, NoObject) : k \in UnparsedKinds } :
         request' = [route |-> "/score/peer", body |-> body]
    /\ response' = PeerResponse
    /\ HandlerFrame
    /\ UNCHANGED memo

\* The response is sent and the request context is popped.
Return ==
    /\ ~Idle
    /\ request' = NoRequest
    /\ response' = NoResponse
    /\ HandlerFrame
    /\ memo' = [memo EXCEPT !.fresh = FALSE]

Next ==
    \/ MainStart
    \/ HostImport
    \/ HostLoad
    \/ Stop
    \/ Health
    \/ ScoreTx
    \/ ScorePeer
    \/ Return

Spec == Init /\ [][Next]_vars

\* ------------------------------------------------------------------------
\* The same service, observed for repeated requests: /score/tx bodies come
\* from ProbeBodies, and one exchange served by a loaded model may be
\* remembered and compared with every later one of the same process.
\* ------------------------------------------------------------------------

ProbeBodies ==
    { Body(k, NoObject) : k \in UnparsedKinds \cup NonObjectKinds }
        \cup { Body("object", MakeObject(o, fr, fe)) :
                  o  \in {{}, OtherFields},
                  fr \in {Missing, Num(0), Num(10)},
                  fe \in {Missing, Num(50), Num(One), NumStr(50)} }

ScoreTxProbe ==
    /\ ScoreTxOf(ProbeBodies)
    /\ memo' \in {memo} \cup
                 ( IF memo.set \/ tx_anomaly_model = NoModel
                   THEN {}
                   ELSE {[set |-> TRUE, fresh |-> TRUE,
                          request |-> request', response |-> response']} )

NextDet ==
    \/ MainStart
    \/ HostImport
    \/ HostLoad
    \/ Stop
    \/ Health
    \/ ScoreTxProbe
    \/ ScorePeer
    \/ Return

SpecDet == Init /\ [][NextDet]_vars

\* ------------------------------------------------------------------------
\* Properties
\* ------------------------------------------------------------------------

\* clamp(x, lo, hi) as the specification writes it.
Clamp(x, lo, hi) == IF x < lo THEN lo ELSE IF x > hi THEN hi ELSE x

\* A /score/tx request has been answered.
TxAnswered == request.route = "/score/tx" /\ response # NoResponse

TxSuccess == TxAnswered /\ response.status = 200

\* The object of the answered request and the vector taken from it.
TxObject == request.body.obj

TxFeatures == ExtractFeatures(TxObject)

\* C1: every 200 response of /score/tx carries an anomaly_score in [0,1] and
\* a fee_adequacy in [0,1], whatever the numeric field values (negative and
\* very large ones included) and whatever decision score the model returns.
C1_ScoresBounded ==
    TxSuccess =>
        /\ response.body.anomaly_score \in 0..One
        /\ response.body.fee_adequacy \in 0..One

\* A success where both clamps had work to do: the fee rate is very large and
\* 0.5 - decision_score is below 0.
C1_Witness ==
    /\ TxSuccess
    /\ Get(TxObject, "fee_rate") = Num(Big)
    /\ ScoreOffset - DecisionFunction(tx_anomaly_model, TxFeatures) < 0

\* C2 (as claimed): a /score/tx body that is a JSON object over any subset of
\* the 8 named fields, the empty subset included, is never answered 400.
C2_ObjectNeverRejected ==
    (TxAnswered /\ request.body.kind = "object") => response.status # 400

\* C3 (as claimed): a missing, empty or unparseable /score/tx body is answered
\* 400 with an error field, whether or not the model is loaded.
C3_BadBodyIs400 ==
    (TxAnswered /\ request.body.kind \in UnparsedKinds) =>
        /\ response.status = 400
        /\ "error" \in DOMAIN response.body

\* C4: for every successfully scored payload fee_adequacy is
\* clamp(fee_rate * 100, 0, 1), halved exactly when fee < 0.1, with a missing
\* fee or fee_rate read as 0; so fee_rate 0.01 with fee 1.0 gives 1.0, with
\* fee 0.05 gives 0.5, and fee_rate 0.0 gives 0.0 for every fee.
C4_FeeAdequacyExact ==
    TxSuccess =>
        LET fr == Get(TxObject, "fee_rate").v
            fe == Get(TxObject, "fee").v
            c  == Clamp(fr * 100, 0, One)
            fa == response.body.fee_adequacy
        IN  /\ fe < 100  => 2 * fa = c
            /\ fe >= 100 => fa = c
            /\ (fr = 10 /\ fe = 1000) => fa = 1000
            /\ (fr = 10 /\ fe = 50) => fa = 500
            /\ fr = 0 => fa = 0

\* The halving example of the specification, answered by a loaded model.
C4_Witness ==
    /\ TxSuccess
    /\ Get(TxObject, "fee_rate") = Num(10)
    /\ Get(TxObject, "fee") = Num(50)
    /\ response.body.fee_adequacy = 500

\* C5: every /score/tx response is all-or-nothing: a 200 with anomaly_score,
\* fee_adequacy and the success message together, or a 400/500 with an error
\* field and neither score.
C5_AllOrNothing ==
    TxAnswered =>
        \/ /\ response.status = 200
           /\ DOMAIN response.body =
                 {"anomaly_score", "fee_adequacy", "message"}
           /\ response.body.message = "Transaction scored successfully"
        \/ /\ response.status \in {400, 500}
           /\ DOMAIN response.body = {"error"}

\* A request that fails in the fee computation, after inference has already
\* produced the anomaly score.
C5_Witness ==
    /\ TxAnswered
    /\ tx_anomaly_model \in Estimators
    /\ response.status = 500
    /\ response.body.error = "TypeError"

\* C6: after the model is loaded, two /score/tx requests with the same
\* payload get the same response, whatever requests come between them, and no
\* request changes the model handle or the persisted artifact.
C6_Deterministic ==
    /\ [](( /\ memo.set
            /\ request = memo.request
            /\ response # NoResponse ) => response = memo.response)
    /\ [][ (Idle /\ ~Idle') =>
             /\ tx_anomaly_model' = tx_anomaly_model
             /\ artifact' = artifact ]_vars

\* A remembered successful exchange is repeated later in the same process.
C6_Witness ==
    /\ memo.set
    /\ ~memo.fresh
    /\ memo.response.status = 200
    /\ request = memo.request
    /\ response = memo.response

\* One call of load_or_create_model (at startup or by the host).
InitCall == MainStart \/ HostLoad

\* C7: with no artifact at the model path, load_or_create_model (when it
\* completes) has created, fitted and persisted the bootstrap model, so the
\* artifact exists; every later call or process start takes the load branch,
\* neither refits nor rewrites the artifact, and holds the model first
\* persisted.
C7_Lifecycle ==
    [][ /\ (InitCall /\ artifact = Absent /\ raised' = "none") =>
              /\ initLog' = <<"Creating", "Saved">>
              /\ artifact' = BootstrapModel
              /\ tx_anomaly_model' = BootstrapModel
              /\ persisted' = BootstrapModel
        /\ (InitCall /\ artifact \in Pickles) =>
              /\ initLog' = <<"Loading">>
              /\ raised' = "none"
              /\ tx_anomaly_model' = artifact
        /\ artifact \in Pickles => artifact' = artifact
        /\ persisted # NoModel => artifact = persisted /\ persisted' = persisted
      ]_vars

\* A process started by __main__ after the one that created the artifact:
\* it loaded what that one persisted.
C7_Witness ==
    /\ proc = "main"
    /\ initLog = <<"Loading">>
    /\ persisted = BootstrapModel
    /\ tx_anomaly_model = persisted
    /\ artifact = persisted

\* C8: the anomaly_score of a successful /score/tx is
\* clamp(0.5 - decisionScore, 0, 1) for the decision function's value on the
\* extracted vector; the -1/+1 label of predict does not influence it.
C8_AnomalyFromDecision ==
    TxSuccess =>
        response.body.anomaly_score =
            Clamp(500 - DecisionFunction(tx_anomaly_model, TxFeatures), 0, One)

\* Two estimators give this vector the same decision score and different
\* labels; the score returned is not the one the label would give.
C8_Witness ==
    /\ TxSuccess
    /\ \E other \in Estimators \ {tx_anomaly_model} :
         /\ DecisionFunction(other, TxFeatures) =
               DecisionFunction(tx_anomaly_model, TxFeatures)
         /\ Predict(other, TxFeatures) # Predict(tx_anomaly_model, TxFeatures)
    /\ response.body.anomaly_score #
          AnomalyFromLabel(tx_anomaly_model, TxFeatures)

\* C9 (as claimed): when no artifact exists and persisting the fitted model
\* fails, startup by __main__ still completes, with the in-memory model
\* loaded and the server serving.
C9_PersistNonFatal ==
    (initLog = <<"Creating">> /\ proc # "hosted") =>
        /\ proc = "main"
        /\ tx_anomaly_model = BootstrapModel

\* C10: with a corrupt or unreadable artifact at the model path, startup
\* ends with the load failure: no model is created in its place, the artifact
\* is left as it was, and the server never serves.
C10_CorruptAborts ==
    /\ [][ (MainStart /\ artifact = Corrupt) =>
              /\ raised' = "load"
              /\ proc' = "crashed"
              /\ artifact' = Corrupt
              /\ tx_anomaly_model' = NoModel ]_vars
    /\ []( proc = "crashed" => Idle /\ tx_anomaly_model = NoModel )
    /\ []( proc = "main" => artifact \in Pickles )

\* A start that found the corrupt artifact.
C10_Witness ==
    /\ proc = "crashed"
    /\ raised = "load"
    /\ initLog = <<"Loading">>
    /\ artifact = Corrupt

====
